---- MODULE Spec2Model ----
(***************************************************************************)
(* Model of wyzie-lib (src/src/funcs.ts): the searchSubtitles operation    *)
(* (search GET, optional subtitle-content GET) and the text-to-WebVTT      *)
(* normalizer inside parseToVTT.                                           *)
(*                                                                         *)
(* A JavaScript string is a sequence of one-character strings, so that     *)
(* every regular expression and string method of the source is an         *)
(* operator over characters.                                               *)
(***************************************************************************)
EXTENDS Integers, Sequences, FiniteSets

(***************************************************************************)
(* Bounds of the explored inputs.                                          *)
(***************************************************************************)
MaxDocLines == 4
MaxCues == 2
MaxDescriptors == 2

(***************************************************************************)
(* Character classes of the regular expressions.                           *)
(***************************************************************************)
Digit == {"0", "1", "2", "3", "4", "5", "6", "7", "8", "9"}
WhiteSpace == {" ", "\t", "\n", "\r"}
Separator == {",", "."}

NL == <<"\n">>
CRLF == <<"\r", "\n">>
CR == <<"\r">>

(***************************************************************************)
(* String.prototype methods and the regular expressions of parseToVTT.     *)
(***************************************************************************)
\* least element of a non-empty set of indices: where a regular expression,
\* scanning from the left, matches first
firstIndex(S) == CHOOSE i \in S : \A k \in S : i <= k

\* s.replace(/\r\n/g, "\n")
RECURSIVE replaceCRLF(_)
replaceCRLF(s) ==
  LET hits == {i \in 1..(Len(s) - 1) : s[i] = "\r" /\ s[i + 1] = "\n"}
  IN IF hits = {} THEN s
     ELSE SubSeq(s, 1, firstIndex(hits) - 1) \o NL
          \o replaceCRLF(SubSeq(s, firstIndex(hits) + 2, Len(s)))

\* s.replace(/\r/g, "\n")
replaceCR(s) == [i \in 1..Len(s) |-> IF s[i] = "\r" THEN "\n" ELSE s[i]]

\* s.trim()
trim(s) ==
  LET solid == {i \in 1..Len(s) : s[i] \notin WhiteSpace}
  IN IF solid = {} THEN <<>>
     ELSE SubSeq(s, firstIndex(solid), CHOOSE i \in solid : \A k \in solid : k <= i)

\* index just after the run of newlines that starts at i
newlineRunEnd(s, i) ==
  firstIndex({j \in i..(Len(s) + 1) : j = Len(s) + 1 \/ s[j] # "\n"})

\* s.split(/\n\n+/): the separators are the runs of two or more newlines
RECURSIVE splitBlocks(_)
splitBlocks(s) ==
  LET hits == {i \in 1..(Len(s) - 1) : s[i] = "\n" /\ s[i + 1] = "\n"}
  IN IF hits = {} THEN <<s>>
     ELSE <<SubSeq(s, 1, firstIndex(hits) - 1)>>
          \o splitBlocks(SubSeq(s, newlineRunEnd(s, firstIndex(hits)), Len(s)))

\* s.split("\n")
RECURSIVE splitLines(_)
splitLines(s) ==
  LET hits == {i \in 1..Len(s) : s[i] = "\n"}
  IN IF hits = {} THEN <<s>>
     ELSE <<SubSeq(s, 1, firstIndex(hits) - 1)>>
          \o splitLines(SubSeq(s, firstIndex(hits) + 1, Len(s)))

\* a.join(sep)
RECURSIVE join(_, _)
join(a, sep) ==
  IF a = <<>> THEN <<>>
  ELSE IF Len(a) = 1 THEN a[1]
       ELSE a[1] \o sep \o join(Tail(a), sep)

\* s.replace(/\n{3,}/g, "\n\n")
RECURSIVE collapseNewlines(_)
collapseNewlines(s) ==
  LET hits == {i \in 1..(Len(s) - 2) :
                 s[i] = "\n" /\ s[i + 1] = "\n" /\ s[i + 2] = "\n"}
  IN IF hits = {} THEN s
     ELSE SubSeq(s, 1, firstIndex(hits) - 1) \o NL \o NL
          \o collapseNewlines(SubSeq(s, newlineRunEnd(s, firstIndex(hits)), Len(s)))

(***************************************************************************)
(* The timestamp matcher                                                   *)
(*   /^\d{1,2}:\d{2}(?::\d{2})?[,\.]\d{3}(?:\.|,)?\s*-->\s*                *)
(*     \d{1,2}:\d{2}(?::\d{2})?[,\.]\d{3}(?:\.|,)?$/                       *)
(* as a position-set automaton: each operator maps the set of positions    *)
(* the prefix can end at to the positions reachable after one more item.   *)
(***************************************************************************)
matchClass(s, P, C) == {p + 1 : p \in {q \in P : q <= Len(s) /\ s[q] \in C}}
matchDigits1(s, P) == matchClass(s, P, Digit)
matchDigits2(s, P) == matchDigits1(s, matchDigits1(s, P))
matchDigits3(s, P) == matchDigits1(s, matchDigits2(s, P))
matchOptional(P, Q) == P \cup Q
matchSpaces(s, P) ==
  {q \in 1..(Len(s) + 1) :
     \E p \in P : p <= q /\ \A k \in p..(q - 1) : s[k] \in WhiteSpace}
matchArrow(s, P) ==
  matchClass(s, matchClass(s, matchClass(s, P, {"-"}), {"-"}), {">"})

matchTimeCode(s, P) ==
  LET hours == matchDigits1(s, P) \cup matchDigits2(s, P)
      minutes == matchDigits2(s, matchClass(s, hours, {":"}))
      seconds == matchOptional(minutes, matchDigits2(s, matchClass(s, minutes, {":"})))
      millis == matchDigits3(s, matchClass(s, seconds, Separator))
  IN matchOptional(millis, matchClass(s, millis, Separator))

timestampTest(s) ==
  LET first == matchTimeCode(s, {1})
      arrow == matchSpaces(s, matchArrow(s, matchSpaces(s, first)))
  IN (Len(s) + 1) \in matchTimeCode(s, arrow)

\* /^\d+$/.test(line)
digitsTest(s) == s # <<>> /\ \A k \in 1..Len(s) : s[k] \in Digit

\* s.replace(/[,.](?=\s*-->)/, ""): the first separator that only white
\* space parts from an arrow is removed
arrowAhead(s, i) == matchArrow(s, matchSpaces(s, {i})) # {}

\* as if the lookahead were (?=.*-->): any separator with an arrow after it
removeSeparatorBeforeArrow_anyArrow(s) ==
  LET hits == {i \in 1..Len(s) :
                 s[i] \in Separator /\ \E j \in (i + 1)..Len(s) : arrowAhead(s, j)}
  IN IF hits = {} THEN s
     ELSE SubSeq(s, 1, firstIndex(hits) - 1) \o SubSeq(s, firstIndex(hits) + 1, Len(s))

removeSeparatorBeforeArrow(s) ==
  LET hits == {i \in 1..Len(s) : s[i] \in Separator /\ arrowAhead(s, i + 1)}
  IN IF hits = {} THEN s
     ELSE SubSeq(s, 1, firstIndex(hits) - 1) \o SubSeq(s, firstIndex(hits) + 1, Len(s))

\* s.replace(/[,.]$/, "")
removeSeparatorAtEnd(s) ==
  IF s # <<>> /\ s[Len(s)] \in Separator THEN SubSeq(s, 1, Len(s) - 1) ELSE s

\* as if the g flag were missing: only the first comma is converted
commaToDot_once(s) ==
  LET hits == {i \in 1..(Len(s) - 3) :
                 /\ s[i] = ","
                 /\ s[i + 1] \in Digit /\ s[i + 2] \in Digit /\ s[i + 3] \in Digit}
  IN IF hits = {} THEN s
     ELSE SubSeq(s, 1, firstIndex(hits) - 1) \o <<".">>
          \o SubSeq(s, firstIndex(hits) + 1, Len(s))

\* s.replace(/,(\d{3})/g, ".$1")
RECURSIVE commaToDot(_)
commaToDot(s) ==
  LET hits == {i \in 1..(Len(s) - 3) :
                 /\ s[i] = ","
                 /\ s[i + 1] \in Digit /\ s[i + 2] \in Digit /\ s[i + 3] \in Digit}
  IN IF hits = {} THEN s
     ELSE SubSeq(s, 1, firstIndex(hits) - 1) \o <<".">>
          \o SubSeq(s, firstIndex(hits) + 1, firstIndex(hits) + 3)
          \o commaToDot(SubSeq(s, firstIndex(hits) + 4, Len(s)))

(***************************************************************************)
(* The body of parseToVTT after the content is fetched (lines 72-130).     *)
(***************************************************************************)
HEADER == <<"W", "E", "B", "V", "T", "T", "\n", "\n">>

normalizedContent(content) == trim(replaceCR(replaceCRLF(content)))

blocks(content) == splitBlocks(normalizedContent(content))

RECURSIVE trimAll(_)
trimAll(ls) == IF ls = <<>> THEN <<>> ELSE <<trim(ls[1])>> \o trimAll(Tail(ls))

nonEmpty(line) == Len(line) > 0
notDigits(line) == ~digitsTest(line)

lines(block) == SelectSeq(trimAll(splitLines(block)), nonEmpty)

\* lines.findIndex(...), 1-based; 0 stands for the -1 of the source
timestampIndex(ls) ==
  LET hits == {i \in 1..Len(ls) : timestampTest(ls[i])}
  IN IF hits = {} THEN 0 ELSE firstIndex(hits)

\* as if the filter of subtitle numbers were missing
textLines_keepNumbers(ls) ==
  SelectSeq(SubSeq(ls, timestampIndex(ls) + 1, Len(ls)), nonEmpty)

textLines(ls) ==
  SelectSeq(SelectSeq(SubSeq(ls, timestampIndex(ls) + 1, Len(ls)), notDigits), nonEmpty)

timestampLine(ls) ==
  commaToDot(removeSeparatorAtEnd(removeSeparatorBeforeArrow(ls[timestampIndex(ls)])))

\* the block survives every `continue` of the loop body
emitted(block) ==
  LET ls == lines(block)
  IN /\ trim(block) # <<>>
     /\ Len(ls) >= 2
     /\ timestampIndex(ls) # 0
     /\ textLines(ls) # <<>>

\* the text one loop iteration appends to vtt
cueText(block) ==
  LET ls == lines(block)
  IN timestampLine(ls) \o NL \o join(textLines(ls), NL) \o NL \o NL

\* as if the cue were put in front of the cues gathered so far
appendCue_front(vtt, block) ==
  SubSeq(vtt, 1, 8) \o cueText(block) \o SubSeq(vtt, 9, Len(vtt))

appendCue(vtt, block) == vtt \o cueText(block)

\* for (const block of blocks) { ... vtt += ... }
RECURSIVE processBlocks(_, _)
processBlocks(vtt, bs) ==
  IF bs = <<>> THEN vtt
  ELSE processBlocks(IF emitted(bs[1]) THEN appendCue(vtt, bs[1]) ELSE vtt, Tail(bs))

\* as if the trim before the final blank line were missing
cleanedVtt_untrimmed(vtt) == collapseNewlines(vtt) \o NL \o NL

cleanedVtt(vtt) == trim(collapseNewlines(vtt)) \o NL \o NL

convertToVTT(content) == cleanedVtt(processBlocks(HEADER, blocks(content)))

(***************************************************************************)
(* Subtitle files served by the download URL: the inputs of the            *)
(* normalizer.                                                             *)
(***************************************************************************)
Arrow == <<" ", "-", "-", ">", " ">>

\* time codes HH:MM:SS<sep>mmm of the two sample cues
timeCode(n, sep) ==
  IF n = 1 THEN <<"0", "0", ":", "0", "0", ":", "0", "1">> \o sep \o <<"0", "0", "0">>
  ELSE IF n = 2 THEN <<"0", "0", ":", "0", "0", ":", "0", "2">> \o sep \o <<"5", "0", "0">>
  ELSE IF n = 3 THEN <<"0", "1", ":", "0", "2", ":", "0", "3">> \o sep \o <<"1", "2", "3">>
  ELSE <<"0", "1", ":", "0", "2", ":", "0", "4">> \o sep \o <<"9", "8", "7">>

\* timestamp 1 runs 00:00:01 to 00:00:02, timestamp 2 runs 01:02:03 to 01:02:04
timestampOf(t, sep) == timeCode(2 * t - 1, sep) \o Arrow \o timeCode(2 * t, sep)

\* a timestamp line without seconds group, with trailing separators, mixed
\* separators and no space around the arrow:  1:05.000,-->1:04,000.
OddTimestamp ==
  <<"1", ":", "0", "5", ".", "0", "0", "0", ",", "-", "-", ">",
    "1", ":", "0", "4", ",", "0", "0", "0", ".">>

RECURSIVE SeqsUpTo(_, _)
SeqsUpTo(S, n) ==
  IF n = 0 THEN {<<>>}
  ELSE LET shorter == SeqsUpTo(S, n - 1)
       IN shorter \cup {Append(q, x) : q \in {r \in shorter : Len(r) = n - 1}, x \in S}

\* free-form files: up to MaxDocLines lines, joined by newlines
LinePool == {<<>>, <<" ">>, OddTimestamp, timestampOf(1, <<".">>), <<" ", "a">>, <<"7">>}
FreeDocs == {join(ls, NL) : ls \in SeqsUpTo(LinePool, MaxDocLines)}

\* cue-structured files: up to MaxCues cues, written in one of the styles
CaptionChoices ==
  {<<<<"a">>>>, <<<<" ", "b">>>>, <<<<"7">>>>,
   <<<<"a">>, <<"7">>>>, <<<<"a">>, <<"b", " ", "c">>>>}
Cues == [ts : 1..2, captions : CaptionChoices]
Styles == {"vtt", "vttBare", "vttWide", "srt", "srtCRLF", "srtCR"}
eolOf(style) == IF style = "srtCRLF" THEN CRLF ELSE IF style = "srtCR" THEN CR ELSE NL
isSrt(style) == style \in {"srt", "srtCRLF", "srtCR"}
sequenceNumber(i) == <<(<<"1", "2", "3", "4", "5", "6", "7", "8", "9">>)[i]>>

cueLines(style, cs, i) ==
  (IF isSrt(style) THEN <<sequenceNumber(i)>> ELSE <<>>)
  \o <<timestampOf(cs[i].ts, IF isSrt(style) THEN <<",">> ELSE <<".">>)>>
  \o cs[i].captions

renderDoc(style, cs) ==
  LET eol == eolOf(style)
      gap == IF style = "vttWide" THEN eol \o eol \o eol ELSE eol \o eol
      body == join([i \in 1..Len(cs) |-> join(cueLines(style, cs, i), eol)], gap)
  IN CASE style \in {"vtt", "vttWide"} ->
            <<"W", "E", "B", "V", "T", "T">> \o gap
            \o (IF cs = <<>> THEN <<>> ELSE body \o gap)
       [] style = "srtCRLF" -> IF cs = <<>> THEN <<>> ELSE body \o eol
       [] OTHER -> body

CueDocs == {renderDoc(st, cs) : st \in Styles, cs \in SeqsUpTo(Cues, MaxCues)}

Documents == FreeDocs \cup CueDocs

\* the files the whole call is explored with
SampleDocs ==
  {<<>>,
   OddTimestamp \o NL \o <<"a">>,
   renderDoc("srtCRLF", <<[ts |-> 2, captions |-> <<<<"a">>, <<"7">>>>],
                          [ts |-> 1, captions |-> <<<<" ", "b">>>>]>>)}

(***************************************************************************)
(* The search service and the errors of fetch.                             *)
(***************************************************************************)
SearchUrl == "https://sub.wyzie.ru/search"
SubtitleUrls == {"url1", "url2"}
\* SubtitleData, src/src/types.ts; only the url is read by the library
Descriptors == [url : SubtitleUrls]
DescriptorLists == SeqsUpTo(Descriptors, MaxDescriptors)

FailureStatuses == {"404", "500"}

\* new Error(message), and the errors the platform rejects with
Error(message) == [name |-> "Error", message |-> message]
TransportError == [name |-> "TypeError", message |-> <<"fetch failed">>]
JsonError == [name |-> "SyntaxError", message |-> <<"Unexpected token">>]
BodyError == [name |-> "TypeError", message |-> <<"body stream interrupted">>]

\* `${error}`
errorToString(error) == <<error.name, ": ">> \o error.message

\* fetchSubtitles, line 49
httpError(status) == Error(<<"HTTP error! status: ", status>>)
\* as if parseToVTT threw the message of fetchSubtitles
contentError_generic(status) == httpError(status)

\* parseToVTT, line 67
contentError(status) == Error(<<"Failed to fetch subtitle content: ", status>>)
\* searchSubtitles, line 173
wrapError(error) == Error(<<"Error fetching subtitles: ">> \o errorToString(error))

(***************************************************************************)
(* One call of searchSubtitles.  pc is the await the call is suspended at. *)
(***************************************************************************)
VARIABLES pc, parseVTT, remote, subtitles, log, result

vars == <<pc, parseVTT, remote, subtitles, log, result>>

NoResult == [kind |-> "none"]
Thrown(error) == [kind |-> "error", error |-> error]
Returned(list) == [kind |-> "list", subtitles |-> list]
ReturnedWithVtt(list, text) ==
  [kind |-> "composite", subtitles |-> list, vttContent |-> text]

Event(op, stage, detail) == [op |-> op, stage |-> stage, detail |-> detail]

Init ==
  /\ pc = "idle"
  /\ parseVTT = FALSE
  /\ remote \in SampleDocs
  /\ subtitles = <<>>
  /\ log = <<>>
  /\ result = NoResult

\* the catch of searchSubtitles: the call ends by throwing the wrapped error
fail(error) ==
  /\ pc' = "done"
  /\ result' = Thrown(wrapError(error))

\* the catch of parseToVTT logs and rethrows; the catch of searchSubtitles wraps
failInContent(response, error) ==
  /\ log' = log \o <<response, Event("console.error", "content", error.name)>>
  /\ fail(error)

\* lines 161-163: the URL is built and the search GET is issued
searchSubtitles(p) ==
  /\ pc = "idle"
  /\ parseVTT' = p
  /\ log' = Append(log, Event("GET", "search", SearchUrl))
  /\ pc' = "awaitSearch"
  /\ UNCHANGED <<remote, subtitles, result>>

\* line 47: fetch rejects
SearchTransportFailure ==
  /\ pc = "awaitSearch"
  /\ log' = Append(log, Event("rejected", "search", "fetch"))
  /\ fail(TransportError)
  /\ UNCHANGED <<parseVTT, remote, subtitles>>

\* lines 48-50: the response is not ok
SearchHttpError(status) ==
  /\ pc = "awaitSearch"
  /\ log' = Append(log, Event("response", "search", status))
  /\ fail(httpError(status))
  /\ UNCHANGED <<parseVTT, remote, subtitles>>

\* line 51: the response is ok and its body is being read
SearchResponseOk ==
  /\ pc = "awaitSearch"
  /\ log' = Append(log, Event("response", "search", "200"))
  /\ pc' = "awaitJson"
  /\ UNCHANGED <<parseVTT, remote, subtitles, result>>

\* line 51: response.json() rejects
SearchJsonFailure ==
  /\ pc = "awaitJson"
  /\ log' = Append(log, Event("rejected", "search", "json"))
  /\ fail(JsonError)
  /\ UNCHANGED <<parseVTT, remote, subtitles>>

\* as if an empty list were thrown as an error when conversion is requested
SearchJson_throwsOnEmpty(list) ==
  /\ pc = "awaitJson"
  /\ subtitles' = list
  /\ IF parseVTT /\ Len(list) > 0
     THEN /\ log' = log \o <<Event("json", "search", "list"),
                             Event("GET", "content", list[1].url)>>
          /\ pc' = "awaitContent"
          /\ UNCHANGED result
     ELSE /\ log' = Append(log, Event("json", "search", "list"))
          /\ pc' = "done"
          /\ result' = IF parseVTT THEN Thrown(wrapError(Error(<<"No subtitles found">>)))
                       ELSE Returned(list)
  /\ UNCHANGED <<parseVTT, remote>>

\* as if the last descriptor of the list were fetched
SearchJson_lastDescriptor(list) ==
  /\ pc = "awaitJson"
  /\ subtitles' = list
  /\ IF parseVTT /\ Len(list) > 0
     THEN /\ log' = log \o <<Event("json", "search", "list"),
                             Event("GET", "content", list[Len(list)].url)>>
          /\ pc' = "awaitContent"
          /\ UNCHANGED result
     ELSE /\ log' = Append(log, Event("json", "search", "list"))
          /\ pc' = "done"
          /\ result' = Returned(list)
  /\ UNCHANGED <<parseVTT, remote>>

\* lines 163-171: the descriptor list arrives
SearchJson(list) ==
  /\ pc = "awaitJson"
  /\ subtitles' = list
  /\ IF parseVTT /\ Len(list) > 0
     THEN /\ log' = log \o <<Event("json", "search", "list"),
                             Event("GET", "content", list[1].url)>>
          /\ pc' = "awaitContent"
          /\ UNCHANGED result
     ELSE /\ log' = Append(log, Event("json", "search", "list"))
          /\ pc' = "done"
          /\ result' = Returned(list)
  /\ UNCHANGED <<parseVTT, remote>>

\* line 65: fetch rejects
ContentTransportFailure ==
  /\ pc = "awaitContent"
  /\ failInContent(Event("rejected", "content", "fetch"), TransportError)
  /\ UNCHANGED <<parseVTT, remote, subtitles>>

\* as if a failed content GET fell back to returning the descriptor list
ContentHttpError_fallback(status) ==
  /\ pc = "awaitContent"
  /\ log' = Append(log, Event("response", "content", status))
  /\ pc' = "done"
  /\ result' = Returned(subtitles)
  /\ UNCHANGED <<parseVTT, remote, subtitles>>

\* lines 66-68: the response is not ok
ContentHttpError(status) ==
  /\ pc = "awaitContent"
  /\ failInContent(Event("response", "content", status), contentError(status))
  /\ UNCHANGED <<parseVTT, remote, subtitles>>

\* line 70: the response is ok and its body is being read
ContentResponseOk ==
  /\ pc = "awaitContent"
  /\ log' = Append(log, Event("response", "content", "200"))
  /\ pc' = "awaitText"
  /\ UNCHANGED <<parseVTT, remote, subtitles, result>>

\* line 70: response.text() rejects
ContentTextFailure ==
  /\ pc = "awaitText"
  /\ failInContent(Event("rejected", "content", "text"), BodyError)
  /\ UNCHANGED <<parseVTT, remote, subtitles>>

\* lines 70-130 and 168: the text arrives, is converted and returned
ContentText ==
  /\ pc = "awaitText"
  /\ log' = log \o <<Event("text", "content", "body"),
                     Event("transform", "content", "vtt")>>
  /\ pc' = "done"
  /\ result' = ReturnedWithVtt(subtitles, convertToVTT(remote))
  /\ UNCHANGED <<parseVTT, remote, subtitles>>

Next ==
  \/ \E p \in BOOLEAN : searchSubtitles(p)
  \/ SearchTransportFailure
  \/ \E status \in FailureStatuses : SearchHttpError(status)
  \/ SearchResponseOk
  \/ SearchJsonFailure
  \/ \E list \in DescriptorLists : SearchJson(list)
  \/ ContentTransportFailure
  \/ \E status \in FailureStatuses : ContentHttpError(status)
  \/ ContentResponseOk
  \/ ContentTextFailure
  \/ ContentText

Spec == Init /\ [][Next]_vars

(***************************************************************************)
(* The normalizer over every document: the call from the point where the   *)
(* content GET of the first descriptor has answered 2xx.                   *)
(***************************************************************************)
InitText ==
  /\ pc = "awaitText"
  /\ parseVTT = TRUE
  /\ remote \in Documents
  /\ subtitles \in {<<[url |-> "url1"]>>}
  /\ log = <<Event("GET", "search", SearchUrl), Event("response", "search", "200"),
             Event("json", "search", "list"), Event("GET", "content", "url1"),
             Event("response", "content", "200")>>
  /\ result = NoResult

NextText ==
  \/ ContentTextFailure
  \/ ContentText

SpecText == InitText /\ [][NextText]_vars

(***************************************************************************)
(* Vocabulary of the properties: the output read back as a document.       *)
(***************************************************************************)
\* the pieces of s between the occurrences of sep, left to right
RECURSIVE splitOn(_, _)
splitOn(s, sep) ==
  LET hits == {i \in 1..(Len(s) - Len(sep) + 1) : SubSeq(s, i, i + Len(sep) - 1) = sep}
  IN IF hits = {} THEN <<s>>
     ELSE <<SubSeq(s, 1, firstIndex(hits) - 1)>>
          \o splitOn(SubSeq(s, firstIndex(hits) + Len(sep), Len(s)), sep)

BlankLine == <<"\n", "\n">>
HeaderLine == <<"W", "E", "B", "V", "T", "T">>

Converted == pc = "done" /\ result.kind = "composite"
Failed == pc = "done" /\ result.kind = "error"

\* the cues of a document: what stands between the header and the final
\* blank line, cut at every blank line
cuesOf(text) ==
  LET parts == splitOn(text, BlankLine)
  IN IF Len(parts) < 2 THEN <<>> ELSE SubSeq(parts, 2, Len(parts) - 1)

framed(text) ==
  LET parts == splitOn(text, BlankLine)
  IN Len(parts) >= 2 /\ parts[1] = HeaderLine /\ parts[Len(parts)] = <<>>

\* hours:minutes:seconds<sep>milliseconds, nothing optional
fullTimeCode(s, P, sep) ==
  LET hours == matchDigits1(s, P) \cup matchDigits2(s, P)
      minutes == matchDigits2(s, matchClass(s, hours, {":"}))
      seconds == matchDigits2(s, matchClass(s, minutes, {":"}))
  IN matchDigits3(s, matchClass(s, seconds, {sep}))

\* two full dot-millisecond time codes joined by the arrow
fullTimestamp(s) ==
  (Len(s) + 1) \in
    fullTimeCode(s, matchSpaces(s, matchArrow(s, matchSpaces(s,
      fullTimeCode(s, {1}, ".")))), ".")

\* H:MM:SS<sep>mmm --> H:MM:SS<sep>mmm, one space on each side of the arrow
plainTimestamp(s, sep) ==
  (Len(s) + 1) \in
    fullTimeCode(s, matchClass(s, matchArrow(s, matchClass(s,
      fullTimeCode(s, {1}, sep), {" "})), {" "}), sep)

trimmed(line) == line # <<>> /\ line[1] \notin WhiteSpace /\ line[Len(line)] \notin WhiteSpace
visible(line) == \E i \in 1..Len(line) : line[i] \notin WhiteSpace
onlyDigits(line) == line # <<>> /\ \A i \in 1..Len(line) : line[i] \in Digit
stripped(line) ==
  LET solid == {i \in 1..Len(line) : line[i] \notin WhiteSpace}
  IN SubSeq(line, CHOOSE i \in solid : \A k \in solid : i <= k,
                  CHOOSE i \in solid : \A k \in solid : k <= i)

(***************************************************************************)
(* C2.  Whatever the input text is, the output begins with the line        *)
(* WEBVTT, ends with exactly one blank line (newline-newline after a       *)
(* character that is not a newline) and has no three newlines in a row.    *)
(***************************************************************************)
C2_HeaderAndEnding ==
  Converted =>
    LET out == result.vttContent
        n == Len(out)
    IN /\ n >= 8
       /\ SubSeq(out, 1, 7) = HeaderLine \o NL
       /\ out[n] = "\n" /\ out[n - 1] = "\n" /\ out[n - 2] # "\n"
       /\ \A i \in 1..(n - 2) : ~(out[i] = "\n" /\ out[i + 1] = "\n" /\ out[i + 2] = "\n")

\* a whitespace-only file has been converted
C2_Witness ==
  /\ Converted
  /\ remote # <<>>
  /\ \A i \in 1..Len(remote) : remote[i] \in WhiteSpace

(***************************************************************************)
(* C6.  Every timestamp line of the output is two time codes               *)
(* hours:minutes:seconds.milliseconds joined by the arrow.                 *)
(***************************************************************************)
C6_FullTimestamps ==
  Converted =>
    LET cues == cuesOf(result.vttContent)
    IN \A i \in 1..Len(cues) : fullTimestamp(splitOn(cues[i], NL)[1])

(***************************************************************************)
(* C7.  The cues of the output are the cues of the emitted blocks of the   *)
(* input, one each, in the order of the blocks.                            *)
(***************************************************************************)
emittedBlocks(content) == SelectSeq(blocks(content), emitted)

cueOfBlock(block) ==
  LET ls == lines(block)
  IN join(<<timestampLine(ls)>> \o textLines(ls), NL)

C7_CueOrder ==
  Converted =>
    LET kept == emittedBlocks(remote)
    IN /\ framed(result.vttContent)
       /\ cuesOf(result.vttContent) = [i \in 1..Len(kept) |-> cueOfBlock(kept[i])]

\* two cues came out, the later timestamp first, and a block was discarded
C7_Witness ==
  /\ Converted
  /\ LET cues == cuesOf(result.vttContent)
     IN /\ Len(cues) = 2
        /\ Len(blocks(remote)) > 2
        /\ splitOn(cues[1], NL)[1] = timestampOf(2, <<".">>)
        /\ splitOn(cues[2], NL)[1] = timestampOf(1, <<".">>)

(***************************************************************************)
(* C9.  Every cue of the output is a timestamp line followed by at least   *)
(* one text line, each text line non-empty and not made of digits only;    *)
(* cues are one blank line apart; a block without timestamp line, with     *)
(* fewer than two non-empty lines or with no text line left after the      *)
(* timestamp line adds nothing, and the conversion still succeeds.         *)
(***************************************************************************)
\* the block read from its raw lines, independently of the loop body
solidLines(block) ==
  LET raw == splitOn(block, NL)
  IN [i \in 1..Len(raw) |-> IF visible(raw[i]) THEN stripped(raw[i]) ELSE <<>>]

complete(block) ==
  LET ls == solidLines(block)
  IN /\ Cardinality({i \in 1..Len(ls) : ls[i] # <<>>}) >= 2
     /\ \E t \in 1..Len(ls) :
          /\ timestampTest(ls[t])
          /\ \A k \in 1..(t - 1) : ~timestampTest(ls[k])
          /\ \E k \in (t + 1)..Len(ls) : ls[k] # <<>> /\ ~onlyDigits(ls[k])

wellFormedCue(cue) ==
  LET ls == splitOn(cue, NL)
  IN /\ Len(ls) >= 2
     /\ timestampTest(ls[1])
     /\ \A k \in 2..Len(ls) : ls[k] # <<>> /\ ~onlyDigits(ls[k])

C9_CuesWellFormed ==
  /\ (pc = "done" /\ log[Len(log)].op = "transform") => result.kind = "composite"
  /\ Converted =>
       LET cues == cuesOf(result.vttContent)
           bs == blocks(remote)
       IN /\ framed(result.vttContent)
          /\ \A i \in 1..Len(cues) : wellFormedCue(cues[i])
          /\ Len(cues) = Cardinality({i \in 1..Len(bs) : complete(bs[i])})

\* one block came out as a cue, next to a block with a timestamp line and
\* nothing but a number after it
C9_Witness ==
  /\ Converted
  /\ Len(cuesOf(result.vttContent)) = 1
  /\ \E i \in 1..Len(blocks(remote)) :
       LET ls == solidLines(blocks(remote)[i])
       IN Len(ls) = 2 /\ timestampTest(ls[1]) /\ onlyDigits(ls[2])

(***************************************************************************)
(* C1.  Normalizing a canonical VttDocument (header, blank line, cues one  *)
(* blank line apart, each a dot-millisecond timestamp line and one or more *)
(* non-empty text lines, final blank line) gives the same document.        *)
(***************************************************************************)
canonicalCue(cue) ==
  LET ls == splitOn(cue, NL)
  IN /\ Len(ls) >= 2
     /\ plainTimestamp(ls[1], ".")
     /\ \A k \in 2..Len(ls) : ls[k] # <<>>

canonicalVtt(text) ==
  /\ framed(text)
  /\ \A i \in 1..Len(text) : text[i] # "\r"
  /\ LET cues == cuesOf(text)
     IN \A i \in 1..Len(cues) : canonicalCue(cues[i])

\* every text line is free of surrounding white space and not a bare number
plainCaptions(text) ==
  LET cues == cuesOf(text)
  IN \A i \in 1..Len(cues) :
       LET ls == splitOn(cues[i], NL)
       IN \A k \in 2..Len(ls) : trimmed(ls[k]) /\ ~onlyDigits(ls[k])

\* C1 as the specification states it
C1_Idempotent ==
  (Converted /\ canonicalVtt(remote)) => result.vttContent = remote

\* C1 as amended: the text lines of the canonical document carry no leading
\* or trailing white space and none is made of digits only
C1_IdempotentOnPlainCaptions ==
  (Converted /\ canonicalVtt(remote) /\ plainCaptions(remote))
    => result.vttContent = remote

\* a canonical document of two cues, one of them with two text lines
C1_Witness ==
  /\ Converted
  /\ canonicalVtt(remote) /\ plainCaptions(remote)
  /\ Len(cuesOf(remote)) = 2
  /\ \E i \in 1..2 : Len(splitOn(cuesOf(remote)[i], NL)) = 3

(***************************************************************************)
(* C8.  A well-formed SubRip input (blocks one blank line apart, each a    *)
(* number line, a comma-millisecond timestamp line and one or more caption *)
(* lines) gives one cue per block: no number line, the timestamp line with *)
(* each comma turned into a dot and every digit kept, the captions in      *)
(* their order.                                                            *)
(***************************************************************************)
\* the text with every line ending written as one newline and the line
\* ending of the last line left out
unixLines(text) ==
  LET n == Len(text)
      body == IF n >= 2 /\ SubSeq(text, n - 1, n) = CRLF THEN SubSeq(text, 1, n - 2)
              ELSE IF n >= 1 /\ text[n] \in {"\n", "\r"} THEN SubSeq(text, 1, n - 1)
              ELSE text
  IN join(splitOn(join(splitOn(body, CRLF), NL), CR), NL)

subRipBlocks(text) == splitOn(unixLines(text), BlankLine)

subRipBlock(block) ==
  LET ls == splitOn(block, NL)
  IN /\ Len(ls) >= 3
     /\ onlyDigits(ls[1])
     /\ plainTimestamp(ls[2], ",")
     /\ \A k \in 3..Len(ls) : visible(ls[k])

wellFormedSubRip(text) ==
  LET bs == subRipBlocks(text)
  IN \A i \in 1..Len(bs) : subRipBlock(bs[i])

dotted(line) == [i \in 1..Len(line) |-> IF line[i] = "," THEN "." ELSE line[i]]

expectedCue(block) ==
  LET ls == splitOn(block, NL)
  IN join(<<dotted(ls[2])>> \o [k \in 1..(Len(ls) - 2) |-> stripped(ls[k + 2])], NL)

noBareNumber(text) ==
  LET bs == subRipBlocks(text)
  IN \A i \in 1..Len(bs) :
       LET ls == splitOn(bs[i], NL)
       IN \A k \in 3..Len(ls) : ~onlyDigits(stripped(ls[k]))

\* C8 as the specification states it
C8_SubRip ==
  (Converted /\ wellFormedSubRip(remote)) =>
    LET bs == subRipBlocks(remote)
    IN cuesOf(result.vttContent) = [i \in 1..Len(bs) |-> expectedCue(bs[i])]

\* C8 as amended: no caption line of the input is made of digits only
C8_SubRipWithoutBareNumbers ==
  (Converted /\ wellFormedSubRip(remote) /\ noBareNumber(remote)) =>
    LET bs == subRipBlocks(remote)
    IN cuesOf(result.vttContent) = [i \in 1..Len(bs) |-> expectedCue(bs[i])]

\* a CRLF SubRip file of two blocks, one with two captions, has been converted
C8_Witness ==
  /\ Converted
  /\ wellFormedSubRip(remote) /\ noBareNumber(remote)
  /\ \E i \in 1..Len(remote) : remote[i] = "\r"
  /\ Len(subRipBlocks(remote)) = 2
  /\ \E i \in 1..2 : Len(splitOn(subRipBlocks(remote)[i], NL)) = 4

(***************************************************************************)
(* Vocabulary of the properties of the call: what the log tells.           *)
(***************************************************************************)
eventsWhere(op, stage) == {i \in 1..Len(log) : log[i].op = op /\ log[i].stage = stage}

\* a GET of the stage answered outside 2xx, or was rejected by the transport
failuresOf(stage) ==
  {i \in 1..Len(log) :
     /\ log[i].stage = stage
     /\ \/ log[i].op = "response" /\ log[i].detail # "200"
        \/ log[i].op = "rejected" /\ log[i].detail = "fetch"}

\* any failure of the stage: status, transport, or reading the body
errorsOf(stage) ==
  {i \in 1..Len(log) :
     /\ log[i].stage = stage
     /\ \/ log[i].op = "response" /\ log[i].detail # "200"
        \/ log[i].op = "rejected"}

emptyListReceived ==
  /\ eventsWhere("json", "search") # {}
  /\ subtitles = <<>>

(***************************************************************************)
(* C3.  With VTT conversion requested and an empty descriptor list the     *)
(* call ends in a failure, not in a successful result.                     *)
(***************************************************************************)
\* C3 as the specification states it
C3_EmptyListFails ==
  (pc = "done" /\ parseVTT /\ emptyListReceived) => result.kind = "error"

\* C3 as amended: the call returns the empty descriptor list as its
\* successful result, and neither fetches nor converts anything
C3_EmptyListReturned ==
  (pc = "done" /\ parseVTT /\ emptyListReceived) =>
    /\ result = Returned(<<>>)
    /\ eventsWhere("GET", "content") = {}
    /\ eventsWhere("transform", "content") = {}

C3_Witness == pc = "done" /\ parseVTT /\ emptyListReceived

(***************************************************************************)
(* C4.  When the search GET or the content GET answers outside 2xx or      *)
(* fails in transport, the call ends in an error: no descriptor list and   *)
(* no composite is returned, no GET is issued twice, and no content GET    *)
(* follows a failed search GET.                                            *)
(***************************************************************************)
C4_FailedGetAborts ==
  /\ (failuresOf("search") \cup failuresOf("content")) # {} =>
       /\ pc = "done"
       /\ result.kind = "error"
       /\ log[Len(log)].op \notin {"GET", "transform"}
  /\ Cardinality(eventsWhere("GET", "search")) <= 1
  /\ Cardinality(eventsWhere("GET", "content")) <= 1
  /\ failuresOf("search") # {} => eventsWhere("GET", "content") = {}

\* the content GET failed after two descriptors had been received
C4_Witness ==
  /\ Failed
  /\ failuresOf("content") # {}
  /\ Len(subtitles) = 2

(***************************************************************************)
(* C5.  The error the caller gets names the stage that failed: fetching    *)
(* subtitles or fetching subtitle content.                                 *)
(***************************************************************************)
contains(message, fragment) == \E i \in 1..Len(message) : message[i] = fragment

\* the stage the message speaks of
namedStage(message) ==
  IF contains(message, "Failed to fetch subtitle content: ") THEN "content"
  ELSE IF contains(message, "Error fetching subtitles: ") THEN "search"
  ELSE "none"

failedStage == IF errorsOf("content") # {} THEN "content" ELSE "search"

\* C5 as the specification states it
C5_StageNamed ==
  Failed => namedStage(result.error.message) = failedStage

\* C5 as amended: every failure is wrapped as "Error fetching subtitles: "
\* followed by the text of the underlying error; that text names the stage
\* only for a non-2xx status, and is the same in both stages for a transport
\* failure
C5_WrappedStatusNamed ==
  Failed =>
    /\ result.error.name = "Error"
    /\ result.error.message[1] = "Error fetching subtitles: "
    /\ (\E i \in errorsOf(failedStage) : log[i].op = "response")
         => namedStage(result.error.message) = failedStage
    /\ (\E i \in errorsOf(failedStage) : log[i].detail = "fetch")
         => result.error.message =
              <<"Error fetching subtitles: ">> \o errorToString(TransportError)

\* the content GET answered 404
C5_Witness ==
  /\ Failed
  /\ \E i \in errorsOf("content") : log[i].op = "response" /\ log[i].detail = "404"

(***************************************************************************)
(* C10.  The search GET comes first and once; the content GET comes at     *)
(* most once, after a non-empty descriptor list was received with          *)
(* conversion requested, and asks for the URL of the first descriptor; the *)
(* transformation comes after the content GET answered; without            *)
(* conversion requested there is no content GET.                           *)
(***************************************************************************)
C10_Sequence ==
  /\ pc = "idle" <=> log = <<>>
  /\ log # <<>> => log[1] = Event("GET", "search", SearchUrl)
  /\ pc # "idle" => Cardinality(eventsWhere("GET", "search")) = 1
  /\ Cardinality(eventsWhere("GET", "content")) <= 1
  /\ \A i \in eventsWhere("GET", "content") :
       /\ parseVTT
       /\ Len(subtitles) > 0
       /\ log[i].detail = subtitles[1].url
       /\ \E j \in 1..(i - 1) : log[j] = Event("json", "search", "list")
       /\ \E j \in 1..(i - 1) : log[j] = Event("response", "search", "200")
  /\ \A i \in eventsWhere("transform", "content") :
       /\ \E j \in 1..(i - 1) : log[j] = Event("response", "content", "200")
       /\ \E j \in 1..(i - 1) : log[j] = Event("text", "content", "body")
  /\ result.kind = "composite" => eventsWhere("transform", "content") # {}
  /\ ~parseVTT => eventsWhere("GET", "content") = {}

\* a converted call whose list had two different descriptors
C10_Witness ==
  /\ Converted
  /\ Len(subtitles) = 2
  /\ subtitles[1].url # subtitles[2].url

====
